---- MODULE Spec2Model ----
(***************************************************************************)
(* Target monitoring and purchase execution engine of Gifts-TG-Bot:        *)
(* the listing cache and its poller (services/gifts_manager.py,            *)
(* services/gifts_userbot.py), the purchase executor (main.py,             *)
(* services/buy_userbot.py), the balance module (services/balance.py) and  *)
(* the worker supervisor (main.py, handlers/handlers_main.py).             *)
(*                                                                         *)
(* All coroutines share one asyncio event loop.  An action of this module  *)
(* is the code a coroutine runs from one suspension point (a network call  *)
(* or a sleep) to the next.  Reads and writes of config.json are taken     *)
(* together with the synchronous code around them.                         *)
(***************************************************************************)
EXTENDS Integers, Sequences, FiniteSets, TLC

(***************************************************************************)
(* Bounds of the model.                                                    *)
(***************************************************************************)
MaxGen == 3          \* generations of workers that start_workers may spawn
MaxBal == 3          \* largest account balance, in stars
MaxEnv == 1          \* steps of the platform and of the operator's edits
MaxToggle == 2       \* presses of the activation button
RacePresses == 3     \* presses of the activation button in one burst
MaxStars == 6        \* balances and prices given to the balance check
MaxCount == 2        \* the sweeps of the pollers are counted up to this number
BuyFaults == 6       \* failing platform responses within one purchase

(***************************************************************************)
(* Program constants.                                                      *)
(***************************************************************************)
DefaultRetries == 3  \* buy_resold_gift_userbot(retries=3)
Tolerance == 1       \* abs(balance_diff - expected_price) <= 1

Gens == 1..MaxGen
None == 0            \* Python's None for a listing

(***************************************************************************)
(* The marketplace.  A listing is one resale offer; its link identifies    *)
(* it.  linkKind is the shape of the link normalize_resale_gift copies:    *)
(* "nft" is https://t.me/nft/..., "empty" is the '' default, "other" any   *)
(* other text.                                                             *)
(***************************************************************************)
Listing(id, gid, price, stars, kind) ==
    [id |-> id, gift_id |-> gid, price |-> price,
     available_for_stars |-> stars, linkKind |-> kind]

Listings ==
    << Listing(1, 1, 1, TRUE, "nft"),
       Listing(2, 2, 2, TRUE, "nft"),
       Listing(3, 1, 3, TRUE, "nft"),
       Listing(4, 2, 1, FALSE, "nft"),
       Listing(5, 2, 1, TRUE, "other"),
       Listing(6, 1, 2, TRUE, "nft") >>

ListingIds == 1..Len(Listings)

Price(l) == Listings[l].price

MaxPrices == {1, 2}

Target(gid, max, en) == [GIFT_ID |-> gid, MAX_PRICE |-> max, Enabled |-> en]

(***************************************************************************)
(* client.search_gifts_for_resale(gift_id, order=PRICE): the offers of one *)
(* gift type, cheapest first.                                              *)
(***************************************************************************)
RECURSIVE SortedIds(_)
SortedIds(S) ==
    IF S = {} THEN << >>
    ELSE LET m == CHOOSE x \in S :
                    \A y \in S : Price(x) < Price(y)
                                 \/ (Price(x) = Price(y) /\ x <= y)
         IN  << m >> \o SortedIds(S \ {m})

search_gifts_for_resale(avail, gid) ==
    SortedIds({l \in avail : Listings[l].gift_id = gid})

(***************************************************************************)
(* find_cheapest_gift_by_id: walk the generator; the first offer sold for  *)
(* stars with a positive price decides: returned when within max_price,    *)
(* None when dearer.                                                       *)
(***************************************************************************)
FirstEligibleNoCeiling(offers, max_price) ==
    LET elig == SelectSeq(offers,
                  LAMBDA l : Listings[l].available_for_stars /\ Price(l) > 0)
    IN  IF elig = << >> THEN None ELSE elig[1]

FirstEligible(offers, max_price) ==
    LET elig == SelectSeq(offers,
                  LAMBDA l : Listings[l].available_for_stars /\ Price(l) > 0)
    IN  IF elig = << >> THEN None
        ELSE IF Price(elig[1]) <= max_price THEN elig[1] ELSE None

find_cheapest_gift_by_id(active, cfg, avail, gid, max_price) ==
    IF ~active THEN None
    ELSE IF ~cfg.USERBOT_ENABLED THEN None
    ELSE FirstEligible(search_gifts_for_resale(avail, gid), max_price)

(***************************************************************************)
(* targets_cache: a dict keyed by target index, kept here in insertion     *)
(* order.  update_target_cache replaces the whole entry of its key.        *)
(***************************************************************************)
CacheEntry(idx, gift, target) ==
    [target_index |-> idx, gift_data |-> gift,
     target_info |-> [gift_id |-> target.GIFT_ID,
                      max_price |-> target.MAX_PRICE]]

CachePutKeepListing(cache, e) ==
    IF \E k \in 1..Len(cache) : cache[k].target_index = e.target_index
    THEN [k \in 1..Len(cache) |->
            IF cache[k].target_index = e.target_index /\ e.gift_data # None
            THEN e ELSE cache[k]]
    ELSE Append(cache, e)

CachePut(cache, e) ==
    IF \E k \in 1..Len(cache) : cache[k].target_index = e.target_index
    THEN [k \in 1..Len(cache) |->
            IF cache[k].target_index = e.target_index THEN e ELSE cache[k]]
    ELSE Append(cache, e)

(***************************************************************************)
(* get_all_available_target_gifts: the entries with a listing, enriched    *)
(* with their target snapshot, in a stable sort by price.                  *)
(***************************************************************************)
EnhancedGift(e) ==
    [link |-> e.gift_data, price |-> Price(e.gift_data),
     target_index |-> e.target_index,
     target_max_price |-> e.target_info.max_price]

RECURSIVE InsertByPrice(_, _)
InsertByPrice(sorted, g) ==
    IF sorted = << >> THEN << g >>
    ELSE IF sorted[Len(sorted)].price <= g.price THEN Append(sorted, g)
    ELSE Append(InsertByPrice(SubSeq(sorted, 1, Len(sorted) - 1), g),
                sorted[Len(sorted)])

RECURSIVE SortByPrice(_)
SortByPrice(gifts) ==
    IF gifts = << >> THEN << >>
    ELSE InsertByPrice(SortByPrice(SubSeq(gifts, 1, Len(gifts) - 1)),
                       gifts[Len(gifts)])

RECURSIVE EnhanceAll(_)
EnhanceAll(cache) ==
    IF cache = << >> THEN << >>
    ELSE (IF cache[1].gift_data # None THEN << EnhancedGift(cache[1]) >>
          ELSE << >>) \o EnhanceAll(Tail(cache))

get_all_available_target_gifts_unsorted(cache) == EnhanceAll(cache)

get_all_available_target_gifts(cache) == SortByPrice(EnhanceAll(cache))

(***************************************************************************)
(* validate_gift_purchase and the two checks the executor makes before it. *)
(***************************************************************************)
validate_gift_purchase_any_link(gift, rcpt, max_price) ==
    /\ gift.link # None /\ Listings[gift.link].linkKind # "empty"
    /\ gift.price > 0
    /\ gift.price <= max_price
    /\ rcpt \in {"user", "chat"}

validate_gift_purchase(gift, rcpt, max_price) ==
    /\ gift.link # None /\ Listings[gift.link].linkKind # "empty"
    /\ gift.price > 0
    /\ gift.price <= max_price
    /\ rcpt \in {"user", "chat"}
    /\ Listings[gift.link].linkKind = "nft"

CandidateOk(gift, rcpt) ==
    /\ Listings[gift.link].linkKind # "empty"
    /\ ~(gift.price > gift.target_max_price)
    /\ validate_gift_purchase(gift, rcpt, gift.target_max_price)

(***************************************************************************)
(* The balance check of buy_resold_gift_userbot.                           *)
(***************************************************************************)
Abs(x) == IF x < 0 THEN -x ELSE x

ClassifyStrict(balance_before, balance_after, expected_price) ==
    LET balance_diff == balance_before - balance_after
    IN  IF balance_diff = expected_price THEN "success"
        ELSE IF balance_diff > 0 THEN "success_warning"
        ELSE "retry"

Classify(balance_before, balance_after, expected_price) ==
    LET balance_diff == balance_before - balance_after
    IN  IF Abs(balance_diff - expected_price) <= Tolerance THEN "success"
        ELSE IF balance_diff > 0 THEN "success_warning"
        ELSE "retry"

IsSuccess(c) == c \in {"success", "success_warning"}

(***************************************************************************)
(* State.                                                                  *)
(***************************************************************************)
VARIABLES
    config,          \* config.json
    userbot_active,  \* is_userbot_active(USER_ID)
    avail,           \* platform: the listings on sale
    balance,         \* platform: the account's star balance
    targets_cache,   \* gifts_manager.targets_cache
    running_tasks,   \* main._running_tasks
    ex,              \* gift_purchase_worker tasks, by generation
    po,              \* userbot_targets_updater tasks, by generation
    hd,              \* toggle_active_callback invocations
    gen,             \* generations spawned so far
    waitq,           \* callers awaiting asyncio.gather, in arrival order
    envSteps,        \* platform and operator steps taken
    verified,        \* history: links whose purchase was verified
    vf,              \* one application of the balance check to given inputs
    sweeps,          \* history: sweeps begun by the pollers, up to MaxCount
    rf,              \* one call of refresh_balance with given inputs
    menu             \* start_callback: the configuration its refresh_balance
                     \* loaded, while the balance fetch is awaited

vars == << config, userbot_active, avail, balance, targets_cache,
           running_tasks, ex, po, hd, gen, waitq, envSteps,
           verified, vf, sweeps, rf, menu >>

ExecTask(g) == << "gift_purchase_worker", g >>
PollTask(g) == << "userbot_targets_updater", g >>

EnabledIdx(cfg) == {i \in 1..Len(cfg.TARGETS) : cfg.TARGETS[i].Enabled}

RECURSIVE SeqOfSet(_)
SeqOfSet(S) ==
    IF S = {} THEN << >>
    ELSE LET m == CHOOSE x \in S : \A y \in S : x <= y
         IN  << m >> \o SeqOfSet(S \ {m})

Max(a, b) == IF a > b THEN a ELSE b

MinPrice(gifts) ==
    CHOOSE p \in {gifts[k].price : k \in 1..Len(gifts)} :
        \A k \in 1..Len(gifts) : p <= gifts[k].price

NoConfig == [unset |-> TRUE]   \* a config local not yet assigned

ExNone ==
    [pc |-> "none", cancel |-> FALSE, cfg |-> NoConfig, gifts |-> << >>, gi |-> 0,
     purchased_any |-> FALSE, cached_balance |-> 0, balance_before |-> 0,
     attempt |-> 0, rb_cfg |-> NoConfig, rb_ret |-> "", cause |-> "",
     told |-> FALSE, calls |-> 0, succ |-> 0, notified |-> 0, resp |-> "",
     after |-> "", erred |-> FALSE]

PoNone == [pc |-> "none", cancel |-> FALSE, sweep |-> << >>, k |-> 0,
           idled |-> FALSE, after |-> "", erred |-> FALSE]

HdEnd(ret) == [pc |-> "end", cfg |-> NoConfig, rb_cfg |-> NoConfig, waits |-> {},
               ret |-> ret]

RfNone == [fetched |-> 0, out |-> "", ret |-> 0, done |-> TRUE]

VfNone == [balance_before |-> 0, balance_after |-> 0, expected_price |-> 0,
           result |-> ""]

Handlers == 1..Max(MaxToggle, RacePresses)

HdNone == [pc |-> "idle", cfg |-> NoConfig, rb_cfg |-> NoConfig, waits |-> {},
           ret |-> ""]

(***************************************************************************)
(* A network call of a worker fails only while the environment budget      *)
(* lasts; "dead" is a failed get_me, after which get_userbot_client runs   *)
(* _reset_userbot_state.                                                   *)
(***************************************************************************)
NetOutcomes == {"ok", "error", "dead"}

NetAllowed(out) == out = "ok" \/ envSteps < MaxEnv

EnvAfter(out) == IF out = "ok" THEN envSteps ELSE envSteps + 1

ActiveAfter(out) == IF out = "dead" THEN FALSE ELSE userbot_active

(***************************************************************************)
(* _reset_userbot_state (userbot.py, lines 114-130) awaits disconnect()    *)
(* and stop() of the client inside "try: ... except: pass".  A task whose  *)
(* get_me failed waits there at pc "reset"; after is the place its caller  *)
(* goes on from once get_userbot_client has returned None.  An exception   *)
(* raised at these awaits, the CancelledError of a cancellation requested  *)
(* meanwhile included, is caught by the bare except: the request is used   *)
(* up and the function returns normally.                                   *)
(***************************************************************************)
ResetPath(r, out) ==
    IF out = "dead" THEN [r EXCEPT !.pc = "reset", !.after = r.pc] ELSE r

Place(e) == IF e.pc = "reset" THEN e.after ELSE e.pc

ResetReturn(r) == [r EXCEPT !.pc = r.after, !.after = "", !.cancel = FALSE]

(***************************************************************************)
(* userbot_targets_updater.  pc "top" is the head of the while loop        *)
(* (reached after each of its sleeps), pc "sweep" the for loop over the    *)
(* enabled targets read at the head.  sweeps counts the passes that        *)
(* reached the for loop, up to MaxCount.  idled records that the poller    *)
(* has read ACTIVE as false and slept its 5 seconds (lines 118-124).       *)
(***************************************************************************)
IdleExit(g) == [po EXCEPT ![g] = [PoNone EXCEPT !.pc = "done"]]

Idle(g) == [po EXCEPT ![g].idled = TRUE]

P_Idle(g) ==
    /\ po[g].pc = "top" /\ ~po[g].cancel
    /\ ~config.ACTIVE
    /\ ~po[g].idled
    /\ po' = Idle(g)
    /\ UNCHANGED << config, userbot_active, avail, balance, targets_cache,
                    running_tasks, ex, hd, gen, waitq, envSteps, verified, vf,
                    sweeps, rf, menu >>

P_Cycle(g) ==
    /\ po[g].pc = "top" /\ ~po[g].cancel
    /\ config.ACTIVE
    /\ EnabledIdx(config) # {}
    /\ LET en == SeqOfSet(EnabledIdx(config))
       IN  po' = [po EXCEPT ![g].pc = "sweep", ![g].k = 1,
                     ![g].erred = FALSE,
                     ![g].sweep = [k \in 1..Len(en) |->
                                     << en[k], config.TARGETS[en[k]] >>]]
    /\ sweeps' = IF sweeps < MaxCount THEN sweeps + 1 ELSE sweeps
    /\ UNCHANGED << config, userbot_active, avail, balance, targets_cache,
                    running_tasks, ex, hd, gen, waitq, envSteps, verified, vf,
                    rf, menu >>

update_target_cache_append(g, out) ==
    LET idx    == po[g].sweep[po[g].k][1]
        target == po[g].sweep[po[g].k][2]
        gift   == IF out = "ok"
                  THEN find_cheapest_gift_by_id(userbot_active, config, avail,
                                                target.GIFT_ID, target.MAX_PRICE)
                  ELSE None
    IN  Append(targets_cache, CacheEntry(idx, gift, target))

update_target_cache(g, out) ==
    LET idx    == po[g].sweep[po[g].k][1]
        target == po[g].sweep[po[g].k][2]
        gift   == IF out = "ok"
                  THEN find_cheapest_gift_by_id(userbot_active, config, avail,
                                                target.GIFT_ID, target.MAX_PRICE)
                  ELSE None
    IN  CachePut(targets_cache, CacheEntry(idx, gift, target))

(***************************************************************************)
(* The for loop of the sweep after one update_target_cache: the call       *)
(* returns None on a failure (its own "except Exception", lines 86-91, and *)
(* that of find_cheapest_gift_by_id), so the loop goes to its next target  *)
(* or, after the last, to the sleep before the next pass.                  *)
(***************************************************************************)
SweepStepAbort(p, out) ==
    ResetPath(IF p.k < Len(p.sweep) /\ out = "ok"
              THEN [p EXCEPT !.k = @ + 1]
              ELSE [p EXCEPT !.pc = "top", !.k = 0, !.sweep = << >>],
              out)

SweepStep(p, out) ==
    ResetPath(IF p.k < Len(p.sweep)
              THEN [p EXCEPT !.k = @ + 1]
              ELSE [p EXCEPT !.pc = "top", !.k = 0, !.sweep = << >>],
              out)

P_Update(g) ==
    /\ po[g].pc = "sweep" /\ ~po[g].cancel
    /\ \E out \in NetOutcomes :
          /\ NetAllowed(out)
          /\ out # "ok" => userbot_active /\ config.USERBOT_ENABLED
          /\ targets_cache' = update_target_cache(g, out)
          /\ userbot_active' = ActiveAfter(out)
          /\ envSteps' = EnvAfter(out)
          /\ po' = [po EXCEPT ![g] = SweepStep(po[g], out)]
    /\ UNCHANGED << config, avail, balance, running_tasks, ex, hd, gen,
                    waitq, verified, vf, sweeps, rf, menu >>

P_Reset(g) ==
    /\ po[g].pc = "reset"
    /\ po' = [po EXCEPT ![g] = ResetReturn(po[g])]
    /\ UNCHANGED << config, userbot_active, avail, balance, targets_cache,
                    running_tasks, ex, hd, gen, waitq, envSteps, verified, vf,
                    sweeps, rf, menu >>

(***************************************************************************)
(* A call through the delegated session: get_sender_stars_balance raises   *)
(* at once when the session is not active.                                 *)
(***************************************************************************)
SessionCall(out) == IF userbot_active THEN NetAllowed(out) ELSE out = "error"

EnvAfterCall(out) == IF userbot_active THEN EnvAfter(out) ELSE envSteps

(***************************************************************************)
(* refresh_balance: returns 0 and saves BALANCE = 0 without a network call *)
(* when the sender is not configured or not active; otherwise it fetches   *)
(* the balance and saves it into the configuration it loaded before the    *)
(* fetch.                                                                  *)
(***************************************************************************)
RefreshImmediate(cfg) == ~cfg.HAS_SESSION \/ ~userbot_active

RefreshValue(out) == IF out = "ok" THEN balance ELSE 0

(***************************************************************************)
(* get_sender_stars_balance returns the account's balance as a float;      *)
(* refresh_balance keeps int(balance_float) (balance.py, line 142).  A     *)
(* fetched balance is counted here in parts of a star, StarParts to the    *)
(* star; the variable balance above counts the whole stars.                *)
(***************************************************************************)
StarParts == 2

IntPart(parts) == parts \div StarParts

refresh_balance_round_up(has_session, active, out, fetched) ==
    IF ~has_session THEN 0
    ELSE IF ~active THEN 0
    ELSE IF out = "ok" THEN (fetched + StarParts - 1) \div StarParts
    ELSE 0

refresh_balance(has_session, active, out, fetched) ==
    IF ~has_session THEN 0
    ELSE IF ~active THEN 0
    ELSE IF out = "ok" THEN IntPart(fetched)
    ELSE 0

(***************************************************************************)
(* The executor's coroutine returns or is cancelled; task_done_callback    *)
(* (main.py, lines 156-166) discards the task from _running_tasks.         *)
(***************************************************************************)
FinishExecWrongTask(g, e) ==
    /\ ex' = [ex EXCEPT ![g] = [ExNone EXCEPT !.pc = "done",
                                            !.cause = e.cause,
                                            !.told = e.told]]
    /\ running_tasks' = running_tasks \ {PollTask(g)}

FinishExec(g, e) ==
    /\ ex' = [ex EXCEPT ![g] = [ExNone EXCEPT !.pc = "done",
                                            !.cause = e.cause,
                                            !.told = e.told]]
    /\ running_tasks' = running_tasks \ {ExecTask(g)}

(***************************************************************************)
(* gift_purchase_worker, lines 355-393: the check after a cycle in which   *)
(* nothing was bought.  current_balance is what refresh_balance returned,  *)
(* saved what refresh_balance left in config.json.                         *)
(***************************************************************************)
AfterReconcile(e, current_balance, saved) ==
    IF current_balance < MinPrice(e.gifts)
    THEN [e |-> [e EXCEPT !.pc = "notify_stop", !.cause = "balance"],
          cfg |-> [e.cfg EXCEPT !.ACTIVE = FALSE]]
    ELSE [e |-> [e EXCEPT !.pc = "cycle"], cfg |-> saved]

(***************************************************************************)
(* buy_resold_gift_userbot returned False for the current candidate: the   *)
(* for loop of the executor goes on to the next one.                       *)
(***************************************************************************)
NextCandidate(e) == [e EXCEPT !.pc = "cand", !.gi = @ + 1, !.attempt = 0]

(***************************************************************************)
(* The end of one pass of "for attempt in range(1, retries + 1)" that did  *)
(* not return.                                                             *)
(***************************************************************************)
NextAttemptOneMore(e) ==
    IF e.attempt <= DefaultRetries
    THEN [e EXCEPT !.pc = "buy_send", !.attempt = @ + 1]
    ELSE NextCandidate(e)

NextAttempt(e) ==
    IF e.attempt < DefaultRetries
    THEN [e EXCEPT !.pc = "buy_send", !.attempt = @ + 1]
    ELSE NextCandidate(e)

(***************************************************************************)
(* gift_purchase_worker, lines 345-350: after a purchase the for loop over *)
(* the candidates is left; the cycle ends.                                 *)
(***************************************************************************)
AfterPurchaseNoBreak(e) == NextCandidate(e)

AfterPurchase(e) == [e EXCEPT !.pc = "cycle"]

(***************************************************************************)
(* gift_purchase_worker, lines 181-187: the initial refresh_balance.       *)
(***************************************************************************)
E_Start(g) ==
    /\ ex[g].pc = "start" /\ ~ex[g].cancel
    /\ IF RefreshImmediate(config)
       THEN /\ config' = [config EXCEPT !.BALANCE = 0]
            /\ ex' = [ex EXCEPT ![g].pc = "cycle"]
       ELSE /\ config' = config
            /\ ex' = [ex EXCEPT ![g].pc = "rb_wait", ![g].rb_cfg = config,
                                ![g].rb_ret = "init"]
    /\ UNCHANGED << userbot_active, avail, balance, targets_cache,
                    running_tasks, po, hd, gen, waitq, envSteps, verified, vf, sweeps,
                    rf, menu >>

(***************************************************************************)
(* The executor's refresh_balance returns from its balance fetch.          *)
(***************************************************************************)
E_RefreshDone(g) ==
    /\ ex[g].pc = "rb_wait" /\ ~ex[g].cancel
    /\ \E out \in NetOutcomes :
          /\ SessionCall(out)
          /\ LET e     == ex[g]
                 v     == RefreshValue(out)
                 saved == [e.rb_cfg EXCEPT !.BALANCE = v]
                 r     == IF e.rb_ret = "reconcile"
                          THEN AfterReconcile(e, v, saved)
                          ELSE IF e.rb_ret = "bought"
                          THEN [e |-> AfterPurchase(e), cfg |-> saved]
                          ELSE [e |-> [e EXCEPT !.pc = "cycle"], cfg |-> saved]
             IN  /\ ex' = [ex EXCEPT ![g] =
                             ResetPath([r.e EXCEPT !.rb_cfg = NoConfig,
                                                   !.rb_ret = ""], out)]
                 /\ config' = r.cfg
          /\ userbot_active' = ActiveAfter(out)
          /\ envSteps' = EnvAfterCall(out)
    /\ UNCHANGED << avail, balance, targets_cache, running_tasks, po, hd,
                    gen, waitq, verified, vf, sweeps, rf, menu >>

(***************************************************************************)
(* gift_purchase_worker, lines 191-262: the head of a cycle, up to the for *)
(* loop over the candidates.                                               *)
(***************************************************************************)
E_Cycle(g) ==
    /\ ex[g].pc = "cycle" /\ ~ex[g].cancel
    /\ LET e     == [ex[g] EXCEPT !.cfg = config, !.gifts = << >>, !.gi = 0,
                                  !.purchased_any = FALSE, !.erred = FALSE,
                                  !.calls = 0, !.succ = 0, !.notified = 0]
           gifts == get_all_available_target_gifts(targets_cache)
       IN  IF ~config.ACTIVE
           THEN FinishExec(g, e) /\ config' = config
           ELSE IF ~userbot_active
           THEN /\ config' = [config EXCEPT !.ACTIVE = FALSE]
                /\ ex' = [ex EXCEPT ![g] = [e EXCEPT !.pc = "notify_stop",
                                                     !.cause = "sender"]]
                /\ running_tasks' = running_tasks
           ELSE IF EnabledIdx(config) = {}
           THEN /\ config' = config
                /\ ex' = [ex EXCEPT ![g] = e]
                /\ running_tasks' = running_tasks
           ELSE IF config.RCPT = "none"
           THEN /\ config' = [config EXCEPT !.ACTIVE = FALSE]
                /\ ex' = [ex EXCEPT ![g] = [e EXCEPT !.pc = "notify_stop",
                                                     !.cause = "recipient"]]
                /\ running_tasks' = running_tasks
           ELSE /\ config' = config
                /\ ex' = [ex EXCEPT ![g] =
                            IF gifts = << >> THEN e
                            ELSE [e EXCEPT !.pc = "cand", !.gifts = gifts,
                                           !.gi = 1]]
                /\ running_tasks' = running_tasks
    /\ UNCHANGED << userbot_active, avail, balance, targets_cache, po, hd,
                    gen, waitq, envSteps, verified, vf, sweeps, rf, menu >>

(***************************************************************************)
(* gift_purchase_worker, lines 265-311 and 355-368, with the start of      *)
(* buy_resold_gift_userbot (lines 69-94): the next candidate is validated  *)
(* and checked against the cached balance; after the last candidate the    *)
(* balance is reconciled.                                                  *)
(***************************************************************************)
E_Candidate(g) ==
    /\ ex[g].pc = "cand" /\ ~ex[g].cancel
    /\ LET e == [ex[g] EXCEPT !.resp = ""]
       IN  IF e.gi > Len(e.gifts) /\ e.purchased_any
           THEN ex' = [ex EXCEPT ![g] = [e EXCEPT !.pc = "cycle"]]
                /\ config' = config
           ELSE IF e.gi > Len(e.gifts)
           THEN IF RefreshImmediate(config)
                THEN LET r == AfterReconcile(e, 0, [config EXCEPT !.BALANCE = 0])
                     IN  ex' = [ex EXCEPT ![g] = r.e] /\ config' = r.cfg
                ELSE /\ ex' = [ex EXCEPT ![g] =
                                  [e EXCEPT !.pc = "rb_wait",
                                            !.rb_cfg = config,
                                            !.rb_ret = "reconcile"]]
                     /\ config' = config
           ELSE LET gift == e.gifts[e.gi]
                IN  IF ~CandidateOk(gift, e.cfg.RCPT)
                    THEN ex' = [ex EXCEPT ![g] = NextCandidate(e)]
                         /\ config' = config
                    ELSE IF config.BALANCE < gift.price
                    THEN ex' = [ex EXCEPT ![g] = NextCandidate(e)]
                         /\ config' = [config EXCEPT !.USERBOT_ENABLED = FALSE]
                    ELSE IF ~userbot_active
                    THEN ex' = [ex EXCEPT ![g] = NextCandidate(e)]
                         /\ config' = config
                    ELSE ex' = [ex EXCEPT ![g] =
                                  [e EXCEPT !.pc = "buy_before",
                                            !.cached_balance = config.BALANCE]]
                         /\ config' = config
    /\ UNCHANGED << userbot_active, avail, balance, targets_cache,
                    running_tasks, po, hd, gen, waitq, envSteps, verified, vf, sweeps,
                    rf, menu >>

(***************************************************************************)
(* buy_resold_gift_userbot, lines 90-120: get_userbot_client and the       *)
(* balance read before the purchase.                                       *)
(***************************************************************************)
E_BuyBefore(g) ==
    /\ ex[g].pc = "buy_before" /\ ~ex[g].cancel
    /\ \E out \in NetOutcomes :
          /\ SessionCall(out)
          /\ ex' = [ex EXCEPT ![g] =
                      ResetPath(IF out = "ok"
                                THEN [ex[g] EXCEPT !.pc = "buy_send",
                                                   !.attempt = 1,
                                                   !.balance_before = balance]
                                ELSE NextCandidate(ex[g]),
                                out)]
          /\ userbot_active' = ActiveAfter(out)
          /\ envSteps' = EnvAfterCall(out)
    /\ UNCHANGED << config, avail, balance, targets_cache, running_tasks,
                    po, hd, gen, waitq, verified, vf, sweeps, rf, menu >>

(***************************************************************************)
(* buy_resold_gift_userbot, lines 122-130 and 195-242: E_Send issues one   *)
(* call of client.send_resold_gift, E_SendResult is what the platform does *)
(* with it and answers.                                                    *)
(*   bought:    the listing is transferred and its price debited           *)
(*   silent:    the call returns, nothing was transferred                  *)
(*   retriable: FloodWait, another RPCError or an unexpected exception     *)
(*   fatal:     BadRequest, Forbidden, AuthKeyUnregistered                 *)
(***************************************************************************)
SendOutcomes == {"bought", "silent", "retriable", "fatal"}

SendAllowed(out, link) ==
    CASE out = "bought"    -> userbot_active /\ link \in avail
                              /\ balance >= Price(link)
      [] out = "fatal"     -> userbot_active
                              /\ (link \notin avail \/ balance < Price(link))
      [] out = "silent"    -> userbot_active /\ envSteps < MaxEnv
      [] out = "retriable" -> ~userbot_active \/ envSteps < MaxEnv

AfterSendRetryAll(e, out) ==
    LET r == [e EXCEPT !.resp = out]
    IN  CASE out \in {"bought", "silent"} -> [r EXCEPT !.pc = "buy_verify"]
          [] out = "retriable" -> NextAttempt(r)
          [] out = "fatal" -> NextAttempt(r)

AfterSend(e, out) ==
    LET r == [e EXCEPT !.resp = out]
    IN  CASE out \in {"bought", "silent"} -> [r EXCEPT !.pc = "buy_verify"]
          [] out = "retriable" -> NextAttempt(r)
          [] out = "fatal" -> NextCandidate(r)

E_Send(g) ==
    /\ ex[g].pc = "buy_send" /\ ~ex[g].cancel
    /\ ex' = [ex EXCEPT ![g].pc = "buy_resp", ![g].calls = @ + 1,
                        ![g].resp = ""]
    /\ UNCHANGED << config, userbot_active, avail, balance, targets_cache,
                    running_tasks, po, hd, gen, waitq, envSteps, verified, vf, sweeps,
                    rf, menu >>

E_SendResult(g) ==
    /\ ex[g].pc = "buy_resp" /\ ~ex[g].cancel
    /\ \E out \in SendOutcomes :
          LET e    == ex[g]
              link == e.gifts[e.gi].link
          IN  /\ SendAllowed(out, link)
              /\ ex' = [ex EXCEPT ![g] = AfterSend(e, out)]
              /\ avail' = IF out = "bought" THEN avail \ {link} ELSE avail
              /\ balance' = IF out = "bought" THEN balance - Price(link)
                            ELSE balance
              /\ envSteps' = IF out \in {"bought", "fatal"} \/ ~userbot_active
                             THEN envSteps ELSE envSteps + 1
    /\ UNCHANGED << config, userbot_active, targets_cache, running_tasks,
                    po, hd, gen, waitq, verified, vf, sweeps, rf, menu >>

(***************************************************************************)
(* change_balance_userbot: the cached balance moves by delta, not below 0. *)
(***************************************************************************)
change_balance_userbot(cfg, delta) ==
    [cfg EXCEPT !.BALANCE = Max(0, cfg.BALANCE + delta)]

(***************************************************************************)
(* gift_purchase_worker, lines 247-353: the executor reads the cache       *)
(* through get_all_available_target_gifts and writes nothing to it, a      *)
(* verified purchase included: the entry of the bought listing stays until *)
(* the poller's next update of its target.                                 *)
(***************************************************************************)
CacheAfterVerifyDrop(cache, ok, link) ==
    IF ok THEN SelectSeq(cache, LAMBDA c : c.gift_data # link) ELSE cache

CacheAfterVerify(cache, ok, link) == cache

(***************************************************************************)
(* buy_resold_gift_userbot, lines 132-193: the balance read after the call *)
(* and the classification of the difference.                               *)
(***************************************************************************)
E_Verify(g) ==
    /\ ex[g].pc = "buy_verify" /\ ~ex[g].cancel
    /\ \E out \in NetOutcomes :
          /\ SessionCall(out)
          /\ LET e    == [ex[g] EXCEPT !.resp = ""]
                 gift == e.gifts[e.gi]
                 ok   == out = "ok"
                         /\ IsSuccess(Classify(e.balance_before, balance,
                                               gift.price))
             IN  /\ ex' = [ex EXCEPT ![g] =
                             ResetPath(IF ok THEN [e EXCEPT !.pc = "notify_ok",
                                                            !.succ = @ + 1]
                                       ELSE NextAttempt(e),
                                       out)]
                 /\ config' = IF ok
                              THEN change_balance_userbot(config,
                                       balance - e.cached_balance)
                              ELSE config
                 /\ verified' = IF ok THEN verified \cup {gift.link}
                                ELSE verified
                 /\ targets_cache' = CacheAfterVerify(targets_cache, ok,
                                                      gift.link)
          /\ userbot_active' = ActiveAfter(out)
          /\ envSteps' = EnvAfterCall(out)
    /\ UNCHANGED << avail, balance, running_tasks, po, hd, gen, waitq, vf,
                    sweeps, rf, menu >>

(***************************************************************************)
(* A bot.send_message of the executor either is delivered or raises; the   *)
(* exception reaches "except Exception" of the cycle (line 397), after     *)
(* which the loop sleeps and starts its next cycle.                        *)
(***************************************************************************)
SendMessageOutcomes == {"delivered", "raised"}

SendMessageAllowed(out) == out = "delivered" \/ envSteps < MaxEnv

(***************************************************************************)
(* gift_purchase_worker, lines 397-400: an exception raised in the cycle   *)
(* is logged; the loop sleeps and starts its next cycle.  erred records    *)
(* that the log line of line 398 (for the poller, gifts_manager.py line    *)
(* 172) was written since the task's last cycle began.                     *)
(***************************************************************************)
CycleFailedExit(e) == [ExNone EXCEPT !.pc = "done"]

CycleFailed(e) == [e EXCEPT !.pc = "cycle", !.erred = TRUE]

(***************************************************************************)
(* gift_purchase_worker, lines 313-350: the success notification, the      *)
(* refresh_balance after it and the break.                                 *)
(***************************************************************************)
E_NotifyOk(g) ==
    /\ ex[g].pc = "notify_ok" /\ ~ex[g].cancel
    /\ \E out \in SendMessageOutcomes :
          /\ SendMessageAllowed(out)
          /\ LET e == ex[g]
             IN  IF out = "raised"
                 THEN /\ ex' = [ex EXCEPT ![g] = CycleFailed(e)]
                      /\ config' = config
                      /\ envSteps' = envSteps + 1
                 ELSE /\ envSteps' = envSteps
                      /\ IF RefreshImmediate(config)
                         THEN /\ config' = [config EXCEPT !.BALANCE = 0]
                              /\ ex' = [ex EXCEPT ![g] =
                                         AfterPurchase(
                                           [e EXCEPT !.notified = @ + 1,
                                                     !.purchased_any = TRUE])]
                         ELSE /\ config' = config
                              /\ ex' = [ex EXCEPT ![g] =
                                         [e EXCEPT !.pc = "rb_wait",
                                                   !.notified = @ + 1,
                                                   !.purchased_any = TRUE,
                                                   !.rb_cfg = config,
                                                   !.rb_ret = "bought"]]
    /\ UNCHANGED << userbot_active, avail, balance, targets_cache,
                    running_tasks, po, hd, gen, waitq, verified, vf, sweeps,
                    rf, menu >>

(***************************************************************************)
(* gift_purchase_worker, lines 211-218, 238-245 and 380-388: the           *)
(* notification of a hard stop and the break that ends the worker.         *)
(***************************************************************************)
E_NotifyStop(g) ==
    /\ ex[g].pc = "notify_stop" /\ ~ex[g].cancel
    /\ \E out \in SendMessageOutcomes :
          /\ SendMessageAllowed(out)
          /\ IF out = "raised"
             THEN /\ ex' = [ex EXCEPT ![g] = CycleFailed(ex[g])]
                  /\ running_tasks' = running_tasks
                  /\ envSteps' = envSteps + 1
             ELSE /\ FinishExec(g, [ex[g] EXCEPT !.told = TRUE])
                  /\ envSteps' = envSteps
    /\ UNCHANGED << config, userbot_active, avail, balance, targets_cache,
                    po, hd, gen, waitq, verified, vf, sweeps, rf, menu >>

(***************************************************************************)
(* get_valid_config at the head of a cycle raises (the file cannot be read *)
(* or parsed): the exception is caught by the "except Exception" of the    *)
(* cycle, the loop sleeps and reads again.                                 *)
(***************************************************************************)
E_ReadFailed(g) ==
    /\ ex[g].pc = "cycle" /\ ~ex[g].cancel
    /\ envSteps < MaxEnv
    /\ envSteps' = envSteps + 1
    /\ ex' = [ex EXCEPT ![g] = CycleFailed(ex[g])]
    /\ UNCHANGED << config, userbot_active, avail, balance, targets_cache,
                    running_tasks, po, hd, gen, waitq, verified, vf, sweeps,
                    rf, menu >>

P_ReadFailed(g) ==
    /\ po[g].pc = "top" /\ ~po[g].cancel
    /\ envSteps < MaxEnv
    /\ envSteps' = envSteps + 1
    /\ po' = [po EXCEPT ![g].erred = TRUE]
    /\ UNCHANGED << config, userbot_active, avail, balance, targets_cache,
                    running_tasks, ex, hd, gen, waitq, verified, vf, sweeps,
                    rf, menu >>

(***************************************************************************)
(* A cancellation requested by stop_workers is raised in the task at the   *)
(* suspension point it waits at; the task ends as cancelled and            *)
(* task_done_callback discards it from _running_tasks.                     *)
(***************************************************************************)
E_Reset(g) ==
    /\ ex[g].pc = "reset"
    /\ ex' = [ex EXCEPT ![g] = ResetReturn(ex[g])]
    /\ UNCHANGED << config, userbot_active, avail, balance, targets_cache,
                    running_tasks, po, hd, gen, waitq, envSteps, verified, vf,
                    sweeps, rf, menu >>

E_Cancelled(g) ==
    /\ ex[g].cancel /\ ex[g].pc \notin {"none", "done", "reset"}
    /\ FinishExec(g, ex[g])
    /\ UNCHANGED << config, userbot_active, avail, balance, targets_cache,
                    po, hd, gen, waitq, envSteps, verified, vf, sweeps, rf,
                    menu >>

FinishPollNoCallback(g) ==
    /\ po' = [po EXCEPT ![g] = [PoNone EXCEPT !.pc = "done"]]
    /\ running_tasks' = running_tasks

FinishPoll(g) ==
    /\ po' = [po EXCEPT ![g] = [PoNone EXCEPT !.pc = "done"]]
    /\ running_tasks' = running_tasks \ {PollTask(g)}

P_Cancelled(g) ==
    /\ po[g].cancel /\ po[g].pc \notin {"none", "done", "reset"}
    /\ FinishPoll(g)
    /\ UNCHANGED << config, userbot_active, avail, balance, targets_cache,
                    ex, hd, gen, waitq, envSteps, verified, vf, sweeps, rf,
                    menu >>

(***************************************************************************)
(* The worker supervisor of main.py.                                       *)
(***************************************************************************)
are_workers_running == Cardinality(running_tasks) > 0

TaskDone(t) ==
    IF t[1] = "gift_purchase_worker" THEN ex[t[2]].pc = "done"
    ELSE po[t[2]].pc = "done"

TaskAlive(t) ==
    IF t[1] = "gift_purchase_worker" THEN ex[t[2]].pc \notin {"none", "done"}
    ELSE po[t[2]].pc \notin {"none", "done"}

(***************************************************************************)
(* stop_workers, lines 94-102: task.cancel() for every tracked task that   *)
(* is not done, then the await of asyncio.gather over the tracked tasks.   *)
(***************************************************************************)
CancelEx(S) ==
    [g \in Gens |-> IF ExecTask(g) \in S /\ ex[g].pc # "done"
                     THEN [ex[g] EXCEPT !.cancel = TRUE] ELSE ex[g]]

CancelPo(S) ==
    [g \in Gens |-> IF PollTask(g) \in S /\ po[g].pc # "done"
                     THEN [po[g] EXCEPT !.cancel = TRUE] ELSE po[g]]

(***************************************************************************)
(* start_workers, lines 148-166: the two create_task calls.                *)
(***************************************************************************)
NewExec == [ExNone EXCEPT !.pc = "start"]

NewPoll == [PoNone EXCEPT !.pc = "top"]

SpawnedTasksExecOnly(g) == {ExecTask(g)}

SpawnedTasks(g) == {ExecTask(g), PollTask(g)}

(***************************************************************************)
(* start_workers, lines 117-142: the readiness checks.                     *)
(***************************************************************************)
ReadyNoRecipient(cfg) ==
    /\ cfg.ACTIVE
    /\ userbot_active
    /\ EnabledIdx(cfg) # {}

Ready(cfg) ==
    /\ cfg.ACTIVE
    /\ userbot_active
    /\ cfg.RCPT # "none"
    /\ EnabledIdx(cfg) # {}

(***************************************************************************)
(* toggle_active_callback, line 192: the handler reads the configuration.  *)
(***************************************************************************)
T_Press(h) ==
    /\ hd[h].pc = "idle"
    /\ IF h = 1 THEN TRUE ELSE hd[h - 1].pc # "idle"
    /\ hd' = [hd EXCEPT ![h].pc = "t_save", ![h].cfg = config]
    /\ UNCHANGED << config, userbot_active, avail, balance, targets_cache,
                    running_tasks, ex, po, gen, waitq, envSteps, verified, vf, sweeps,
                    rf, menu >>

(***************************************************************************)
(* toggle_active_callback, lines 193-211 and 231-239: the flipped flag is  *)
(* saved; activation goes on to refresh_balance and start_workers,         *)
(* deactivation to stop_workers when workers are tracked.                  *)
(***************************************************************************)
T_Save(h) ==
    /\ hd[h].pc = "t_save"
    /\ LET new_status == ~hd[h].cfg.ACTIVE
           saved      == [hd[h].cfg EXCEPT !.ACTIVE = new_status]
           me         == [hd[h] EXCEPT !.cfg = saved]
       IN  IF new_status
           THEN /\ IF userbot_active /\ ~RefreshImmediate(saved)
                   THEN /\ config' = saved
                        /\ hd' = [hd EXCEPT ![h] =
                                    [me EXCEPT !.pc = "t_rb_wait",
                                               !.rb_cfg = saved]]
                   ELSE /\ config' = IF userbot_active
                                     THEN [saved EXCEPT !.BALANCE = 0]
                                     ELSE saved
                        /\ hd' = [hd EXCEPT ![h] = [me EXCEPT !.pc = "sw_check"]]
                /\ UNCHANGED << ex, po, waitq, menu >>
           ELSE /\ config' = saved
                /\ IF are_workers_running
                   THEN /\ ex' = CancelEx(running_tasks)
                        /\ po' = CancelPo(running_tasks)
                        /\ hd' = [hd EXCEPT ![h] =
                                    [me EXCEPT !.pc = "stop_wait",
                                               !.waits = running_tasks,
                                               !.ret = "off"]]
                        /\ waitq' = Append(waitq, h)
                   ELSE /\ hd' = [hd EXCEPT ![h] = HdEnd("off")]
                        /\ UNCHANGED << ex, po, waitq, menu >>
    /\ UNCHANGED << userbot_active, avail, balance, targets_cache,
                    running_tasks, gen, envSteps, verified, vf, sweeps, rf,
                    menu >>

(***************************************************************************)
(* toggle_active_callback, line 208: refresh_balance returns from its      *)
(* balance fetch and saves the configuration it loaded before the fetch.   *)
(***************************************************************************)
T_RefreshDone(h) ==
    /\ hd[h].pc = "t_rb_wait"
    /\ \E out \in NetOutcomes :
          /\ SessionCall(out)
          /\ config' = [hd[h].rb_cfg EXCEPT !.BALANCE = RefreshValue(out)]
          /\ userbot_active' = ActiveAfter(out)
          /\ envSteps' = EnvAfterCall(out)
    /\ hd' = [hd EXCEPT ![h].pc = "sw_check", ![h].rb_cfg = NoConfig]
    /\ UNCHANGED << avail, balance, targets_cache, running_tasks, ex, po,
                    gen, waitq, verified, vf, sweeps, rf, menu >>

(***************************************************************************)
(* start_workers, called from toggle_active_callback (lines 218-230).      *)
(* Not ready: it returns False and the handler saves its own configuration *)
(* with ACTIVE = False.  Ready with tasks tracked: stop_workers is         *)
(* awaited first.  Ready with nothing tracked: the pair is spawned.        *)
(***************************************************************************)
RollbackSkipped(cfg) == cfg

Rollback(cfg) == [cfg EXCEPT !.ACTIVE = FALSE]

start_workers(h) ==
    /\ hd[h].pc = "sw_check"
    /\ IF ~Ready(config)
       THEN /\ config' = Rollback(hd[h].cfg)
            /\ hd' = [hd EXCEPT ![h] = HdEnd("refused")]
            /\ UNCHANGED << running_tasks, ex, po, gen, waitq, menu >>
       ELSE IF running_tasks # {}
       THEN /\ ex' = CancelEx(running_tasks)
            /\ po' = CancelPo(running_tasks)
            /\ hd' = [hd EXCEPT ![h].pc = "stop_wait",
                                ![h].waits = running_tasks,
                                ![h].ret = "start"]
            /\ waitq' = Append(waitq, h)
            /\ UNCHANGED << config, running_tasks, gen, menu >>
       ELSE /\ gen < MaxGen
            /\ gen' = gen + 1
            /\ ex' = [ex EXCEPT ![gen + 1] = NewExec]
            /\ po' = [po EXCEPT ![gen + 1] = NewPoll]
            /\ running_tasks' = SpawnedTasks(gen + 1)
            /\ hd' = [hd EXCEPT ![h] = HdEnd("started")]
            /\ UNCHANGED << config, waitq, menu >>
    /\ UNCHANGED << userbot_active, avail, balance, targets_cache, envSteps,
                    verified, vf, sweeps, rf, menu >>

(***************************************************************************)
(* stop_workers, lines 102-105: asyncio.gather has returned, the tracked   *)
(* set is cleared.  Callers whose gather completes with the same task are  *)
(* resumed in the order they began to wait.  A caller inside start_workers *)
(* then spawns its pair (lines 148-168).                                   *)
(***************************************************************************)
GatherDoneFirstCompleted(h) == \E t \in hd[h].waits : TaskDone(t)

GatherDone(h) == \A t \in hd[h].waits : TaskDone(t)

FirstReady(h) ==
    \E k \in 1..Len(waitq) :
        /\ waitq[k] = h
        /\ \A j \in 1..(k - 1) : ~GatherDone(waitq[j])

stop_workers_resume(h) ==
    /\ hd[h].pc = "stop_wait"
    /\ GatherDone(h) /\ FirstReady(h)
    /\ waitq' = SelectSeq(waitq, LAMBDA x : x # h)
    /\ IF hd[h].ret = "start"
       THEN /\ gen < MaxGen
            /\ gen' = gen + 1
            /\ ex' = [ex EXCEPT ![gen + 1] = NewExec]
            /\ po' = [po EXCEPT ![gen + 1] = NewPoll]
            /\ running_tasks' = SpawnedTasks(gen + 1)
       ELSE /\ running_tasks' = {}
            /\ UNCHANGED << gen, ex, po, menu >>
    /\ hd' = [hd EXCEPT ![h] = HdEnd(IF hd[h].ret = "start"
                                      THEN "restarted" ELSE "stopped")]
    /\ UNCHANGED << config, userbot_active, avail, balance, targets_cache,
                    envSteps, verified, vf, sweeps, rf, menu >>

(***************************************************************************)
(* The platform and the operator.                                          *)
(***************************************************************************)
ListingAppears(l) ==
    /\ envSteps < MaxEnv /\ l \notin avail
    /\ avail' = avail \cup {l}
    /\ envSteps' = envSteps + 1
    /\ UNCHANGED << config, userbot_active, balance, targets_cache,
                    running_tasks, ex, po, hd, gen, waitq, verified, vf, sweeps,
                    rf, menu >>

ListingGone(l) ==
    /\ envSteps < MaxEnv /\ l \in avail
    /\ avail' = avail \ {l}
    /\ envSteps' = envSteps + 1
    /\ UNCHANGED << config, userbot_active, balance, targets_cache,
                    running_tasks, ex, po, hd, gen, waitq, verified, vf, sweeps,
                    rf, menu >>

SessionDrop ==
    /\ envSteps < MaxEnv /\ userbot_active
    /\ userbot_active' = FALSE
    /\ envSteps' = envSteps + 1
    /\ UNCHANGED << config, avail, balance, targets_cache, running_tasks,
                    ex, po, hd, gen, waitq, verified, vf, sweeps, rf, menu >>

(***************************************************************************)
(* config.update_target and config.remove_target, as the handlers of       *)
(* handlers/targets.py and handlers/wizard_states.py call them on the      *)
(* configuration they have just read.                                      *)
(***************************************************************************)
update_target_enabled(cfg, idx, enabled) ==
    [cfg EXCEPT !.TARGETS[idx].Enabled = enabled]

update_target_price(cfg, idx, max_price) ==
    [cfg EXCEPT !.TARGETS[idx].MAX_PRICE = max_price]

remove_target(cfg, idx) ==
    [cfg EXCEPT !.TARGETS =
        [k \in 1..(Len(@) - 1) |-> IF k < idx THEN @[k] ELSE @[k + 1]]]

on_target_toggle(idx) ==
    /\ envSteps < MaxEnv /\ idx \in 1..Len(config.TARGETS)
    /\ config' = update_target_enabled(config, idx,
                                        ~config.TARGETS[idx].Enabled)
    /\ envSteps' = envSteps + 1
    /\ UNCHANGED << userbot_active, avail, balance, targets_cache,
                    running_tasks, ex, po, hd, gen, waitq, verified, vf, sweeps,
                    rf, menu >>

step_edit_target_price(idx, new_price) ==
    /\ envSteps < MaxEnv /\ idx \in 1..Len(config.TARGETS)
    /\ new_price > 0 /\ new_price # config.TARGETS[idx].MAX_PRICE
    /\ config' = update_target_price(config, idx, new_price)
    /\ envSteps' = envSteps + 1
    /\ UNCHANGED << userbot_active, avail, balance, targets_cache,
                    running_tasks, ex, po, hd, gen, waitq, verified, vf, sweeps,
                    rf, menu >>

(***************************************************************************)
(* step_recipient_user_id (handlers/wizard_states.py, lines 409-473): the  *)
(* operator enters a channel username, or the user id 0, which the         *)
(* recipient checks (not target_user_id and not target_chat_id) read as    *)
(* no recipient.                                                           *)
(***************************************************************************)
step_recipient_user_id(r) ==
    /\ envSteps < MaxEnv /\ r # config.RCPT
    /\ config' = [config EXCEPT !.RCPT = r]
    /\ envSteps' = envSteps + 1
    /\ UNCHANGED << userbot_active, avail, balance, targets_cache,
                    running_tasks, ex, po, hd, gen, waitq, verified, vf, sweeps,
                    rf, menu >>

on_target_delete_final(idx) ==
    /\ envSteps < MaxEnv /\ idx \in 1..Len(config.TARGETS)
    /\ config' = remove_target(config, idx)
    /\ envSteps' = envSteps + 1
    /\ UNCHANGED << userbot_active, avail, balance, targets_cache,
                    running_tasks, ex, po, hd, gen, waitq, verified, vf, sweeps,
                    rf, menu >>

(***************************************************************************)
(* Spec: the application from the end of main()'s start-up: the            *)
(* configuration is on disk, no worker runs (main starts none).  The       *)
(* recipient may not be configured yet, the target may be disabled and the *)
(* sender session may not be up.  The operator presses the activation      *)
(* button; the platform offers two listings of the one target's gift type  *)
(* and answers every call.                                                 *)
(***************************************************************************)
BaseConfig ==
    [ACTIVE |-> FALSE, RCPT |-> "user", TARGETS |-> << >>,
     BALANCE |-> 0, USERBOT_ENABLED |-> TRUE, HAS_SESSION |-> TRUE]

InitialOffers == {1, 3}

InitPresses(n) ==
    /\ config \in {[BaseConfig EXCEPT !.TARGETS = << Target(1, 2, en) >>,
                                      !.RCPT = r]
                     : en \in BOOLEAN, r \in {"user", "none"}}
    /\ userbot_active \in BOOLEAN
    /\ avail = InitialOffers
    /\ balance \in {0, MaxBal}
    /\ targets_cache = << >>
    /\ running_tasks = {}
    /\ ex = [g \in Gens |-> ExNone]
    /\ po = [g \in Gens |-> PoNone]
    /\ hd = [h \in Handlers |-> IF h <= n THEN HdNone ELSE HdEnd("off")]
    /\ gen = 0
    /\ waitq = << >>
    /\ envSteps = MaxEnv
    /\ verified = {}
    /\ vf = VfNone
    /\ rf = RfNone
    /\ menu = NoConfig
    /\ sweeps = MaxCount

Init == InitPresses(MaxToggle)

Worker(g) ==
    \/ P_Idle(g) \/ P_Cycle(g) \/ P_Update(g)
    \/ E_Start(g) \/ E_RefreshDone(g) \/ E_Cycle(g) \/ E_Candidate(g)
    \/ E_BuyBefore(g) \/ E_Send(g) \/ E_SendResult(g) \/ E_Verify(g)
    \/ E_NotifyOk(g) \/ E_NotifyStop(g)

Cancellation(g) == E_Cancelled(g) \/ P_Cancelled(g)

Recovery(g) == E_Reset(g) \/ P_Reset(g)

ReadFailure(g) == E_ReadFailed(g) \/ P_ReadFailed(g)

Supervisor(h) ==
    \/ T_Press(h) \/ T_Save(h) \/ T_RefreshDone(h) \/ start_workers(h)
    \/ stop_workers_resume(h)

(***************************************************************************)
(* start_callback (handlers_main.py, lines 76-101): the operator opens the *)
(* main menu.  With the sender active the handler awaits refresh_balance,  *)
(* which loads the configuration, fetches the balance and saves the        *)
(* configuration it loaded with the new BALANCE (balance.py, lines         *)
(* 105-162).                                                               *)
(***************************************************************************)
start_callback ==
    /\ envSteps < MaxEnv /\ menu = NoConfig
    /\ userbot_active
    /\ envSteps' = envSteps + 1
    /\ IF ~config.HAS_SESSION
       THEN config' = [config EXCEPT !.BALANCE = 0] /\ menu' = menu
       ELSE config' = config /\ menu' = config
    /\ UNCHANGED << userbot_active, avail, balance, targets_cache,
                    running_tasks, ex, po, hd, gen, waitq, verified, vf,
                    sweeps, rf >>

start_callback_refreshed ==
    /\ menu # NoConfig
    /\ \E out \in NetOutcomes :
          /\ SessionCall(out)
          /\ config' = [menu EXCEPT !.BALANCE = RefreshValue(out)]
          /\ userbot_active' = ActiveAfter(out)
          /\ envSteps' = EnvAfterCall(out)
    /\ menu' = NoConfig
    /\ UNCHANGED << avail, balance, targets_cache, running_tasks, ex, po,
                    hd, gen, waitq, verified, vf, sweeps, rf >>

Environment ==
    \/ \E l \in ListingIds : ListingAppears(l) \/ ListingGone(l)
    \/ SessionDrop
    \/ \E idx \in 1..2 : on_target_toggle(idx) \/ on_target_delete_final(idx)
    \/ \E idx \in 1..2, p \in MaxPrices : step_edit_target_price(idx, p)
    \/ \E r \in {"chat", "none"} : step_recipient_user_id(r)

Next ==
    \/ \E g \in Gens : Worker(g)
    \/ \E g \in Gens : Cancellation(g)
    \/ \E h \in Handlers : Supervisor(h)

Spec == Init /\ [][Next]_vars

(***************************************************************************)
(* SpecExec: one pair of workers, spawned by start_workers after the first *)
(* activation (the handler's refresh_balance has saved the balance or 0),  *)
(* with two targets, a platform whose calls can fail and an operator who   *)
(* edits the targets.  Before the workers take their first step the        *)
(* operator may have disabled the targets or entered the recipient 0, and  *)
(* the session may have dropped.  The activation button is not pressed, so *)
(* stop_workers is not called and no task is cancelled.  The sweeps of the *)
(* poller are counted.                                                     *)
(***************************************************************************)
InitExec ==
    /\ balance \in 0..MaxBal
    /\ config \in {[BaseConfig EXCEPT !.ACTIVE = TRUE, !.BALANCE = balance,
                         !.RCPT = r,
                         !.TARGETS = << Target(1, 2, en), Target(2, 2, en) >>]
                     : r \in {"user", "none"}, en \in BOOLEAN}
    /\ userbot_active \in BOOLEAN
    /\ avail = ListingIds
    /\ targets_cache = << >>
    /\ running_tasks = SpawnedTasks(1)
    /\ ex = [g \in Gens |-> IF g = 1 THEN NewExec ELSE ExNone]
    /\ po = [g \in Gens |-> IF g = 1 THEN NewPoll ELSE PoNone]
    /\ hd = [h \in Handlers |-> HdEnd("started")]
    /\ gen = 1
    /\ waitq = << >>
    /\ envSteps = 0
    /\ verified = {}
    /\ vf = VfNone
    /\ rf = RfNone
    /\ menu = NoConfig
    /\ sweeps = 0

NextExec ==
    \/ \E g \in Gens : Worker(g)
    \/ \E g \in Gens : Recovery(g)
    \/ Environment

SpecExec == InitExec /\ [][NextExec]_vars

(***************************************************************************)
(* SpecFault: the pair of SpecExec with one more event, whichever comes    *)
(* first: an event of SpecExec, a read of the configuration that raises    *)
(* inside a worker's cycle, or the operator opening the main menu          *)
(* (start_callback), whose refresh_balance saves the configuration it      *)
(* loaded before its fetch.                                                *)
(***************************************************************************)
InitFault ==
    /\ balance \in 0..MaxBal
    /\ config \in {[BaseConfig EXCEPT !.ACTIVE = TRUE, !.BALANCE = balance,
                         !.RCPT = r,
                         !.TARGETS = << Target(1, 2, en), Target(2, 2, en) >>]
                     : r \in {"user", "none"}, en \in BOOLEAN}
    /\ userbot_active \in BOOLEAN
    /\ avail = ListingIds
    /\ targets_cache = << >>
    /\ running_tasks = SpawnedTasks(1)
    /\ ex = [g \in Gens |-> IF g = 1 THEN NewExec ELSE ExNone]
    /\ po = [g \in Gens |-> IF g = 1 THEN NewPoll ELSE PoNone]
    /\ hd = [h \in Handlers |-> HdEnd("started")]
    /\ gen = 1
    /\ waitq = << >>
    /\ envSteps = MaxEnv - 1
    /\ verified = {}
    /\ vf = VfNone
    /\ rf = RfNone
    /\ menu = NoConfig
    /\ sweeps = 0

NextFault ==
    \/ NextExec
    \/ \E g \in Gens : ReadFailure(g)
    \/ start_callback \/ start_callback_refreshed

SpecFault == InitFault /\ [][NextFault]_vars

(***************************************************************************)
(* SpecRace: as Spec, with a burst of RacePresses presses of the           *)
(* activation button.                                                      *)
(***************************************************************************)
InitRace == InitPresses(RacePresses)

SpecRace == InitRace /\ [][Next]_vars

(***************************************************************************)
(* SpecVerify: the balance check of buy_resold_gift_userbot applied once   *)
(* to a balance read before the call, a balance read after it and an       *)
(* expected price.                                                         *)
(***************************************************************************)
InitVerify ==
    /\ config = BaseConfig
    /\ userbot_active = TRUE
    /\ avail = {}
    /\ balance = 0
    /\ targets_cache = << >>
    /\ running_tasks = {}
    /\ ex = [g \in Gens |-> ExNone]
    /\ po = [g \in Gens |-> PoNone]
    /\ hd = [h \in Handlers |-> HdEnd("off")]
    /\ gen = 0
    /\ waitq = << >>
    /\ envSteps = MaxEnv
    /\ verified = {}
    /\ sweeps = MaxCount
    /\ vf \in [balance_before : 0..MaxStars, balance_after : 0..MaxStars,
               expected_price : 1..MaxStars, result : {""}]
    /\ rf = RfNone
    /\ menu = NoConfig

VerifyBalance ==
    /\ vf.result = ""
    /\ vf' = [vf EXCEPT !.result = Classify(vf.balance_before,
                                            vf.balance_after,
                                            vf.expected_price)]
    /\ UNCHANGED << config, userbot_active, avail, balance, targets_cache,
                    running_tasks, ex, po, hd, gen, waitq, envSteps,
                    verified, sweeps, rf, menu >>

NextVerify == VerifyBalance

SpecVerify == InitVerify /\ [][NextVerify]_vars

(***************************************************************************)
(* SpecRefresh: refresh_balance called once, with a configuration that has *)
(* or lacks the sender's session and holds an earlier BALANCE, a sender    *)
(* that is active or not, and a fetch that returns a balance or raises.    *)
(***************************************************************************)
FetchOutcomes == {"ok", "raised"}

InitRefresh ==
    /\ config \in {[BaseConfig EXCEPT !.HAS_SESSION = s, !.BALANCE = b]
                     : s \in BOOLEAN, b \in 0..MaxBal}
    /\ userbot_active \in BOOLEAN
    /\ avail = {}
    /\ balance = 0
    /\ targets_cache = << >>
    /\ running_tasks = {}
    /\ ex = [g \in Gens |-> ExNone]
    /\ po = [g \in Gens |-> PoNone]
    /\ hd = [h \in Handlers |-> HdEnd("off")]
    /\ gen = 0
    /\ waitq = << >>
    /\ envSteps = MaxEnv
    /\ verified = {}
    /\ sweeps = MaxCount
    /\ vf = VfNone
    /\ rf \in [fetched : 0..(MaxBal * StarParts + StarParts - 1),
               out : FetchOutcomes, ret : {0}, done : {FALSE}]
    /\ menu = NoConfig

RefreshBalance ==
    /\ ~rf.done
    /\ LET v == refresh_balance(config.HAS_SESSION, userbot_active, rf.out,
                                rf.fetched)
       IN  /\ config' = [config EXCEPT !.BALANCE = v]
           /\ rf' = [rf EXCEPT !.ret = v, !.done = TRUE]
    /\ UNCHANGED << userbot_active, avail, balance, targets_cache,
                    running_tasks, ex, po, hd, gen, waitq, envSteps,
                    verified, vf, sweeps, menu >>

NextRefresh == RefreshBalance

SpecRefresh == InitRefresh /\ [][NextRefresh]_vars

(***************************************************************************)
(* SpecBuy: one invocation of buy_resold_gift_userbot from its             *)
(* get_userbot_client on: the candidate has passed validation and the      *)
(* cached balance covers its price.  The account's balance, the session    *)
(* and the listing may have changed since the cache and the configuration  *)
(* were written, and up to BuyFaults of the platform's responses fail.     *)
(***************************************************************************)
BuyCandidates == {l \in ListingIds : Listings[l].linkKind = "nft"
                                     /\ Listings[l].available_for_stars
                                     /\ Price(l) \in MaxPrices}

InitBuy ==
    /\ balance \in 0..MaxBal
    /\ userbot_active \in BOOLEAN
    /\ avail \in {ListingIds, {}}
    /\ \E l \in BuyCandidates, b \in 0..MaxBal :
          LET cfg    == [BaseConfig EXCEPT
                           !.ACTIVE = TRUE, !.BALANCE = b,
                           !.TARGETS = << Target(1, 2, TRUE),
                                          Target(2, 2, TRUE) >>]
              idx    == Listings[l].gift_id
              entry  == CacheEntry(idx, l, cfg.TARGETS[idx])
          IN  /\ b >= Price(l)
              /\ config = cfg
              /\ targets_cache = << entry >>
              /\ ex = [g \in Gens |->
                         IF g = 1
                         THEN [ExNone EXCEPT !.pc = "buy_before", !.cfg = cfg,
                                             !.gifts = << EnhancedGift(entry) >>,
                                             !.gi = 1, !.cached_balance = b]
                         ELSE ExNone]
    /\ running_tasks = {ExecTask(1)}
    /\ po = [g \in Gens |-> PoNone]
    /\ hd = [h \in Handlers |-> HdEnd("started")]
    /\ gen = 1
    /\ waitq = << >>
    /\ envSteps = MaxEnv - BuyFaults
    /\ verified = {}
    /\ vf = VfNone
    /\ rf = RfNone
    /\ menu = NoConfig
    /\ sweeps = MaxCount

Purchase(g) == E_BuyBefore(g) \/ E_Send(g) \/ E_SendResult(g) \/ E_Verify(g)

NextBuy == \E g \in Gens : Purchase(g) \/ E_Reset(g)

SpecBuy == InitBuy /\ [][NextBuy]_vars

(***************************************************************************)
(* SpecCancel: as Spec, with a platform on which one call of a worker may  *)
(* fail, so that a worker can be inside _reset_userbot_state when the      *)
(* operator's next press makes stop_workers cancel it.                     *)
(***************************************************************************)
InitCancel ==
    /\ config \in {[BaseConfig EXCEPT !.TARGETS = << Target(1, 2, en) >>,
                                      !.RCPT = r]
                     : en \in BOOLEAN, r \in {"user", "none"}}
    /\ userbot_active \in BOOLEAN
    /\ avail = InitialOffers
    /\ balance \in {0, MaxBal}
    /\ targets_cache = << >>
    /\ running_tasks = {}
    /\ ex = [g \in Gens |-> ExNone]
    /\ po = [g \in Gens |-> PoNone]
    /\ hd = [h \in Handlers |-> IF h <= MaxToggle THEN HdNone ELSE HdEnd("off")]
    /\ gen = 0
    /\ waitq = << >>
    /\ envSteps = MaxEnv - 1
    /\ verified = {}
    /\ vf = VfNone
    /\ rf = RfNone
    /\ menu = NoConfig
    /\ sweeps = MaxCount

NextCancel ==
    \/ Next
    \/ \E g \in Gens : Recovery(g)

SpecCancel == InitCancel /\ [][NextCancel]_vars

(***************************************************************************)
(* SpecCancelFair: SpecCancel under fair scheduling.  The event loop runs  *)
(* every task that can run: a worker's next step (its platform calls       *)
(* return), the delivery of a pending cancellation, the return of          *)
(* _reset_userbot_state, a handler's next step.  Failures of the platform  *)
(* are not obliged to happen.                                              *)
(***************************************************************************)
FairScheduling ==
    /\ \A g \in Gens : WF_vars(Worker(g))
    /\ \A g \in Gens : WF_vars(Cancellation(g))
    /\ \A g \in Gens : WF_vars(Recovery(g))
    /\ \A h \in Handlers : WF_vars(Supervisor(h))

SpecCancelFair == SpecCancel /\ FairScheduling

(***************************************************************************)
(* Properties.                                                             *)
(***************************************************************************)
NValid(e) ==
    Cardinality({k \in 1..Len(e.gifts) : CandidateOk(e.gifts[k], e.cfg.RCPT)})

C2_NoDuplicatePurchase ==
    [][\A g \in Gens :
          (ex[g].pc = "buy_send" /\ ex'[g].pc = "buy_resp")
              => ex[g].gifts[ex[g].gi].link \notin verified]_vars

\* C3: every cache entry that holds a listing holds one whose price is at
\* most the ceiling in the entry's own target snapshot.
C3_CeilingInvariant ==
    \A k \in 1..Len(targets_cache) :
        targets_cache[k].gift_data # None =>
            Price(targets_cache[k].gift_data)
                <= targets_cache[k].target_info.max_price

C3_Witness ==
    \E k \in 1..Len(targets_cache) :
        LET c == targets_cache[k]
        IN  /\ c.gift_data # None
            /\ Price(c.gift_data) = c.target_info.max_price
            /\ c.target_index <= Len(config.TARGETS)
            /\ config.TARGETS[c.target_index].MAX_PRICE < Price(c.gift_data)

\* C4 (as stated): when a cycle with candidates bought nothing and the
\* reconciled balance is below the cheapest candidate's price, the saved
\* ACTIVE flag is false and the executor's loop ends: the executor is at
\* the hard stop's notification or has finished, it is not at the head of
\* a further cycle.
C4_HardStopTerminates ==
    \A g \in Gens :
        ex[g].cause = "balance" =>
            /\ ~config.ACTIVE
            /\ ex[g].pc \in {"notify_stop", "done"}

VerifyDone == vf.result # ""

VerifyDelta == vf.balance_before - vf.balance_after

C6_ZeroDeltaFails ==
    (VerifyDone /\ VerifyDelta = 0 /\ vf.expected_price >= 1)
        => vf.result = "retry"

GenAlive(g) == TaskAlive(ExecTask(g)) \/ TaskAlive(PollTask(g))

\* C7 (as stated): no two generations of workers are alive at once: every
\* task of the old pair has finished before a task of a new pair exists.
C7_SingleGeneration ==
    \A g1 \in Gens, g2 \in Gens : (GenAlive(g1) /\ GenAlive(g2)) => g1 = g2

\* C8 (as stated): while start_workers, called with a pair tracked and the
\* readiness checks passed, waits inside stop_workers, are_workers_running
\* is true.
C8_RunningThroughoutRestart ==
    \A h \in Handlers :
        (hd[h].pc = "stop_wait" /\ hd[h].ret = "start") => are_workers_running

\* C8 (amended): a start_workers call made with a pair tracked and the
\* readiness checks passed tracks the two tasks of the pair it spawned,
\* both alive, when it returns; are_workers_running is then true.  While
\* the call waits for the old pair it can be false.
C8_RunningAfterRestart ==
    [][\A h \in Handlers :
          (hd[h].pc = "stop_wait" /\ hd[h].ret = "start" /\ hd'[h].pc = "end")
              => /\ are_workers_running'
                 /\ running_tasks' = {ExecTask(gen'), PollTask(gen')}
                 /\ ex'[gen'].pc = "start" /\ po'[gen'].pc = "top"]_vars

C8_Witness ==
    \E h \in Handlers :
        /\ hd[h].pc = "end" /\ hd[h].ret = "restarted"
        /\ are_workers_running

NoTransition ==
    \A h \in Handlers : hd[h].pc \notin {"sw_check", "stop_wait"}

\* C9 (as stated): whenever neither start_workers nor stop_workers is in
\* progress the tracked set holds 0 or 2 tasks, also after the executor
\* ended itself by a hard stop.
C9_ZeroOrTwo ==
    NoTransition => Cardinality(running_tasks) \in {0, 2}

\* C9 (amended): whenever neither start_workers nor stop_workers is in
\* progress the tracked set is empty, or holds the executor and the poller
\* of one generation, or holds only the poller of a generation whose
\* executor has ended by itself.
C9_PairOrPoller ==
    NoTransition =>
        \/ running_tasks = {}
        \/ \E g \in Gens : running_tasks = {ExecTask(g), PollTask(g)}
        \/ \E g \in Gens : /\ running_tasks = {PollTask(g)}
                           /\ ex[g].pc = "done"
                           /\ po[g].pc \notin {"none", "done"}

C9_Witness ==
    /\ NoTransition
    /\ \E g \in Gens : /\ running_tasks = {PollTask(g)}
                       /\ ex[g].pc = "done" /\ ex[g].cause = "balance"

InFlight(g) == ex[g].pc \in {"buy_resp", "buy_verify"} /\ ~ex[g].cancel

\* C10 (as stated): at most one purchase is in flight: no two executors
\* are at once between a purchase call and its verification.
C10_OnePurchaseInFlight ==
    \A g1 \in Gens, g2 \in Gens : (InFlight(g1) /\ InFlight(g2)) => g1 = g2

ReadinessHolds ==
    /\ config.ACTIVE
    /\ userbot_active
    /\ config.RCPT \in {"user", "chat"}
    /\ \E k \in 1..Len(config.TARGETS) : config.TARGETS[k].Enabled

\* C11: start_workers returns true and spawns the poller and the executor
\* only if the system is active, the sender session is usable, a recipient
\* is configured and a target is enabled in the configuration it read; if
\* one of the four fails it returns false and leaves the tracked set, the
\* running tasks and the generation count as they were.
C11_ReadinessGate ==
    [][/\ \A h \in Handlers :
             (hd[h].pc = "sw_check" /\ hd'[h].pc # "sw_check") =>
                 IF ReadinessHolds
                 THEN \/ hd'[h].pc = "stop_wait" /\ hd'[h].ret = "start"
                      \/ /\ hd'[h].pc = "end" /\ hd'[h].ret = "started"
                         /\ gen' = gen + 1
                         /\ running_tasks' = {ExecTask(gen'), PollTask(gen')}
                 ELSE /\ hd'[h].pc = "end" /\ hd'[h].ret = "refused"
                      /\ UNCHANGED << running_tasks, ex, po, gen, menu >>
       /\ gen' # gen =>
             \E h \in Handlers :
                 \/ hd[h].pc = "sw_check" /\ ReadinessHolds
                 \/ /\ hd[h].pc = "stop_wait" /\ hd[h].ret = "start"
                    /\ hd'[h].pc = "end" /\ hd'[h].ret = "restarted"]_vars

C11_Witness ==
    \E h \in Handlers :
        /\ hd[h].pc = "end" /\ hd[h].ret = "refused"
        /\ config.RCPT = "none"
        /\ running_tasks = {} /\ gen = 0

C13_StopPostcondition ==
    [][\A h \in Handlers :
          (hd[h].pc = "stop_wait" /\ hd'[h].pc = "end") =>
              /\ \A t \in hd[h].waits : TaskDone(t)'
              /\ running_tasks' \cap hd[h].waits = {}
              /\ hd[h].ret = "off" =>
                     (running_tasks' = {} /\ ~are_workers_running')]_vars

C13_Witness ==
    \E h \in Handlers :
        /\ hd[h].pc = "end" /\ hd[h].ret = "stopped"
        /\ running_tasks = {}
        /\ gen >= 1
        /\ \A g \in 1..gen : ex[g].pc = "done" /\ po[g].pc = "done"

\* C14: a task that has terminated, by cancellation or by leaving its loop,
\* is not in the tracked set once its completion callback has run: every
\* tracked task is alive, and are_workers_running is true only if a tracked
\* task is alive.
C14_NoFinishedTaskTracked ==
    /\ \A t \in running_tasks : TaskAlive(t)
    /\ are_workers_running => \E t \in running_tasks : TaskAlive(t)

C14_Witness ==
    \E g \in Gens :
        /\ po[g].pc = "done" /\ PollTask(g) \notin running_tasks
        /\ ExecTask(g) \in running_tasks /\ TaskAlive(ExecTask(g))

EligibleOffers(gid) ==
    {l \in avail : /\ Listings[l].gift_id = gid
                   /\ Listings[l].available_for_stars
                   /\ Price(l) > 0}

CheapestOverCeiling(gid, max_price) ==
    /\ EligibleOffers(gid) # {}
    /\ \A l \in EligibleOffers(gid) : Price(l) > max_price

PollStep(g) ==
    /\ po[g].pc = "sweep" /\ po'[g].pc \in {"sweep", "top"}
    /\ po'[g] # po[g]

CacheEntryOf(cache, idx) ==
    {cache[k] : k \in {j \in 1..Len(cache) : cache[j].target_index = idx}}

\* C15: when update_target_cache polls a target whose cheapest eligible
\* listing costs more than the target's max_price, the cache then holds
\* exactly one entry for the target's index and that entry has no listing,
\* whatever was cached before.
C15_PollerCeilingRejection ==
    [][\A g \in Gens :
          PollStep(g) =>
              LET idx    == po[g].sweep[po[g].k][1]
                  target == po[g].sweep[po[g].k][2]
              IN  CheapestOverCeiling(target.GIFT_ID, target.MAX_PRICE) =>
                      /\ Cardinality(CacheEntryOf(targets_cache', idx)) = 1
                      /\ \A c \in CacheEntryOf(targets_cache', idx) :
                             c.gift_data = None]_vars

C15_Witness ==
    \E k \in 1..Len(targets_cache) :
        LET c == targets_cache[k]
        IN  /\ c.gift_data = None
            /\ CheapestOverCeiling(c.target_info.gift_id,
                                   c.target_info.max_price)
            /\ \E l \in verified : Listings[l].gift_id = c.target_info.gift_id

ExpectedPoll(gid, max_price) ==
    IF ~userbot_active \/ ~config.USERBOT_ENABLED THEN None
    ELSE IF EligibleOffers(gid) = {} THEN None
    ELSE LET m == CHOOSE l \in EligibleOffers(gid) :
                     \A o \in EligibleOffers(gid) :
                         Price(l) < Price(o) \/ (Price(l) = Price(o) /\ l <= o)
         IN  IF Price(m) <= max_price THEN m ELSE None

\* C16: when the cache entry of a target index is the one a poll of the
\* same target yields from the present platform and session state, a
\* further update_target_cache for that index and target that meets no
\* failure leaves the cache as it is.
C16_IdempotentPoll ==
    [][\A g \in Gens :
          (PollStep(g) /\ envSteps' = envSteps /\ userbot_active' = userbot_active)
              => LET idx    == po[g].sweep[po[g].k][1]
                     target == po[g].sweep[po[g].k][2]
                     first  == CacheEntry(idx, ExpectedPoll(target.GIFT_ID,
                                                            target.MAX_PRICE),
                                          target)
                 IN  first \in CacheEntryOf(targets_cache, idx)
                         => targets_cache' = targets_cache]_vars

C16_Witness ==
    \E g \in Gens :
        /\ sweeps >= 2 /\ po[g].pc = "top"
        /\ envSteps = 0 /\ verified = {} /\ avail = ListingIds
        /\ \E k \in 1..Len(targets_cache) :
               /\ targets_cache[k].gift_data # None
               /\ targets_cache[k].gift_data =
                      ExpectedPoll(targets_cache[k].target_info.gift_id,
                                   targets_cache[k].target_info.max_price)

CycleStep(g) ==
    /\ ex[g].pc = "cycle" /\ ~ex[g].cancel
    /\ ex'[g] # ex[g]

\* C17 (as stated): in every executor cycle that starts with ACTIVE true,
\* if the sender session is inactive or no recipient is configured, the
\* executor saves ACTIVE = false and goes to notify the operator, whatever
\* the target list holds, and from that notification it terminates without
\* starting another cycle.
C17_HardStopsEveryCycle ==
    [][\A g \in Gens :
          /\ (CycleStep(g) /\ config.ACTIVE
                 /\ (~userbot_active \/ config.RCPT = "none"))
                => (~config'.ACTIVE /\ ex'[g].pc = "notify_stop")
          /\ (ex[g].pc = "notify_stop" /\ ~ex[g].cancel /\ ex'[g] # ex[g]
                 /\ ex[g].cause \in {"sender", "recipient"})
                => ex'[g].pc = "done"]_vars

\* C18 (as stated): an executor that has ended because of a hard stop
\* (inactive session, missing recipient, insufficient balance) has had the
\* notification naming that cause delivered, also when the sending of the
\* notification can fail.
C18_NotifiedBeforeExit ==
    \A g \in Gens :
        (ex[g].pc = "done" /\ ex[g].cause # "") => ex[g].told

\* C19 (as stated): a cycle that starts with the saved ACTIVE flag true and
\* no enabled target in the configuration saves ACTIVE as false and goes
\* to the hard stop's notification; it does not stay at the head of the
\* loop to sleep and retry.
C19_NoEnabledTargetsStops ==
    [][\A g \in Gens :
          (CycleStep(g) /\ config.ACTIVE /\ EnabledIdx(config) = {})
              => (~config'.ACTIVE /\ ex'[g].pc = "notify_stop")]_vars

RefreshFetched ==
    rf.done /\ config.HAS_SESSION /\ userbot_active /\ rf.out = "ok"

\* C20 (as stated): refresh_balance returns the integer it has just saved
\* as BALANCE; the value is 0 when the sender is not active or not
\* configured, and it is the fetched balance when the fetch succeeds.
C20_ReconcileContract ==
    rf.done =>
        /\ rf.ret = config.BALANCE
        /\ (~config.HAS_SESSION \/ ~userbot_active) => rf.ret = 0
        /\ RefreshFetched => rf.ret * StarParts = rf.fetched

\* C20 (amended): refresh_balance returns the integer it has just saved as
\* BALANCE; the value is 0 when the sender is not active or not
\* configured, and it is the whole stars of the fetched balance, the
\* fraction dropped, when the fetch succeeds.
C20_ReconcileWholeStars ==
    rf.done =>
        /\ rf.ret = config.BALANCE
        /\ (~config.HAS_SESSION \/ ~userbot_active) => rf.ret = 0
        /\ RefreshFetched =>
               /\ rf.ret * StarParts <= rf.fetched
               /\ rf.fetched < (rf.ret + 1) * StarParts

C20_Witness ==
    /\ RefreshFetched
    /\ rf.fetched % StarParts # 0
    /\ rf.ret > 0
    /\ rf.ret = config.BALANCE

PresentEntries ==
    {k \in 1..Len(targets_cache) : targets_cache[k].gift_data # None}

ScanStart(g) == ex[g].pc = "cycle" /\ ex'[g].pc = "cand"

InScan(g) ==
    ex[g].pc \in {"cand", "buy_before", "buy_send", "buy_resp", "buy_verify"}

\* C21: the list a cycle scans holds exactly the cache entries with a
\* listing, one per target index, in non-decreasing price; the executor
\* starts at its first candidate and moves through the list one candidate
\* at a time without changing it, and every purchase call is for the
\* candidate it is at.
C21_ScanOrder ==
    [][\A g \in Gens :
          /\ ScanStart(g) =>
                LET gifts == ex'[g].gifts
                IN  /\ Len(gifts) = Cardinality(PresentEntries)
                    /\ \A k \in PresentEntries :
                          \E j \in 1..Len(gifts) :
                              /\ gifts[j].link = targets_cache[k].gift_data
                              /\ gifts[j].target_index
                                    = targets_cache[k].target_index
                    /\ \A j1, j2 \in 1..Len(gifts) :
                          gifts[j1].target_index = gifts[j2].target_index
                              => j1 = j2
                    /\ \A j \in 1..(Len(gifts) - 1) :
                          gifts[j].price <= gifts[j + 1].price
                    /\ \A j \in 1..Len(gifts) :
                          gifts[j].price = Price(gifts[j].link)
                    /\ ex'[g].gi = 1
          /\ (InScan(g) /\ InScan(g)') =>
                /\ ex'[g].gifts = ex[g].gifts
                /\ ex'[g].gi \in {ex[g].gi, ex[g].gi + 1}
          /\ (ex[g].pc = "buy_send" /\ ex'[g].pc = "buy_resp") =>
                /\ ex[g].gi \in 1..Len(ex[g].gifts)
                /\ ex'[g].gi = ex[g].gi]_vars

C21_Witness ==
    \E g \in Gens :
        /\ ex[g].pc = "buy_send" /\ ex[g].gi = 2
        /\ ex[g].gifts = get_all_available_target_gifts(targets_cache)
        /\ ex[g].gifts # EnhanceAll(targets_cache)

CallIssued(g) == ex[g].pc = "buy_resp"

CurrentGift(g) == ex[g].gifts[ex[g].gi]

TargetLive(cfg, gift) ==
    /\ gift.target_index \in 1..Len(cfg.TARGETS)
    /\ cfg.TARGETS[gift.target_index].Enabled
    /\ cfg.TARGETS[gift.target_index].GIFT_ID = Listings[gift.link].gift_id

\* C22 (as stated): whenever the executor has issued a purchase call, the
\* target index of the candidate names, in the configuration read at the
\* start of that cycle, a target that is present, enabled and of the
\* candidate's gift type.
C22_StaleEntriesIgnored ==
    \A g \in Gens :
        CallIssued(g) => TargetLive(ex[g].cfg, CurrentGift(g))

\* C23 (as stated): whenever the executor has issued a purchase call for a
\* candidate whose target index names a target of the configuration read
\* at the start of that cycle, the candidate's price is at most that
\* target's MAX_PRICE in that configuration.
C23_ConfiguredCeiling ==
    \A g \in Gens :
        (CallIssued(g)
           /\ CurrentGift(g).target_index \in 1..Len(ex[g].cfg.TARGETS))
        => CurrentGift(g).price
             <= ex[g].cfg.TARGETS[CurrentGift(g).target_index].MAX_PRICE

GiftValid(gift, rcpt) ==
    /\ gift.link # None
    /\ Listings[gift.link].linkKind = "nft"
    /\ gift.price > 0
    /\ rcpt \in {"user", "chat"}

AtCandidate(g) == ex[g].pc = "cand" /\ ex[g].gi \in 1..Len(ex[g].gifts)

InBuy(g) ==
    Place(ex[g]) \in {"buy_before", "buy_send", "buy_resp", "buy_verify"}

BuyStage(e) ==
    CASE e.pc = "reset"      -> 0
      [] e.pc = "buy_before" -> 0
      [] e.pc = "buy_send"   -> 1
      [] e.pc = "buy_resp"   -> 2
      [] e.pc = "buy_verify" -> 3

BuyRank(e) == 4 * e.attempt + BuyStage(e)

\* C25: in one invocation of buy_resold_gift_userbot the purchase call is
\* issued at most DefaultRetries times whatever the platform answers;
\* every step of the invocation is a step forward in its attempts, for the
\* same listing and the same recipient, and the invocation ends by
\* returning True (the success notification follows) or False (the next
\* candidate follows).
C25_BoundedRetry ==
    [][\A g \in Gens :
          /\ ex'[g].calls <= DefaultRetries
          /\ CallIssued(g)' => ex'[g].attempt \in 1..DefaultRetries
          /\ (InBuy(g) /\ ex'[g] # ex[g]) =>
                IF InBuy(g)'
                THEN /\ BuyRank(ex'[g]) > BuyRank(ex[g])
                     /\ ex'[g].gifts = ex[g].gifts
                     /\ ex'[g].gi = ex[g].gi
                     /\ ex'[g].cfg = ex[g].cfg
                ELSE Place(ex'[g]) \in {"cand", "notify_ok"}]_vars

C25_Witness ==
    \E g \in Gens :
        /\ ex[g].pc = "cand" /\ ex[g].gi = 2
        /\ ex[g].calls = DefaultRetries
        /\ envSteps >= MaxEnv - BuyFaults + DefaultRetries

FatalResponse(g) == ex[g].pc = "buy_resp" /\ ex'[g].resp = "fatal"

\* C26: when the platform answers a purchase call with an error that is
\* not retried (BadRequest, Forbidden, AuthKeyUnregistered), the invocation
\* returns False at once: the executor is at the next candidate without
\* another call, whatever is left of the retries, and within the cycle it
\* never goes back to a candidate it has left.
C26_NonRetriableAborts ==
    [][\A g \in Gens :
          /\ FatalResponse(g) =>
                /\ ex'[g].pc = "cand"
                /\ ex'[g].gi = ex[g].gi + 1
                /\ ex'[g].gifts = ex[g].gifts
                /\ ex'[g].calls = ex[g].calls
          /\ (InScan(g) /\ InScan(g)') => ex'[g].gi >= ex[g].gi]_vars

C26_Witness ==
    \E g \in Gens :
        /\ ex[g].pc = "cand" /\ ex[g].resp = "fatal"
        /\ ex[g].gi = 2 /\ ex[g].calls = 1
        /\ DefaultRetries > 1

ReconcileStep(g) ==
    \/ ex[g].pc = "rb_wait" /\ ex[g].rb_ret = "bought"
    \/ ex[g].pc = "reset" /\ ex[g].after = "cycle" /\ ex[g].purchased_any
    \/ /\ ex[g].pc = "notify_ok" /\ ex'[g].purchased_any
       /\ RefreshImmediate(config) /\ config'.BALANCE = 0

\* C27 (as stated): once a purchase of the cycle is verified the executor
\* issues no further purchase call in that cycle, and the step that takes
\* it to the head of the next cycle is the return of the refresh_balance
\* made after the purchase.
C27_StopAfterSuccess ==
    [][\A g \in Gens :
          (ex[g].succ >= 1 /\ ex[g].pc # "cycle" /\ ~ex[g].cancel)
          => /\ ex'[g].pc # "cycle" => ex'[g].calls = ex[g].calls
             /\ ex'[g].pc = "cycle" => ReconcileStep(g)]_vars

Bought == InitialOffers \ avail

Verifying(g, l) ==
    /\ ex[g].pc \in {"buy_verify", "notify_ok"}
    /\ CurrentGift(g).link = l

\* C29 (as stated): a listing the platform has transferred is verified, or
\* an executor is still between its purchase call and the end of its
\* verification; a purchase whose executor was cancelled in between is not
\* left without either.  (The program keeps no record of unresolved
\* purchases, so verification is the only way out.)
C29_NoAmbiguousPurchase ==
    \A l \in Bought :
        l \in verified \/ \E g \in Gens : Verifying(g, l)

PollerAtTop(g) == po[g].pc = "top" /\ ~po[g].cancel

\* C30: a poller that reads ACTIVE as false at the head of its loop stays
\* at the head of the loop: it writes nothing to the cache, does not finish
\* and leaves the task set as it is; and when a poller that has idled starts a
\* sweep, ACTIVE is true and the sweep is over the enabled targets of the
\* configuration as it is then.
C30_PollerIdles ==
    [][\A g \in Gens :
          /\ (PollerAtTop(g) /\ ~config.ACTIVE /\ po'[g] # po[g]
                 /\ ~po'[g].cancel)
                => /\ po'[g].pc = "top"
                   /\ targets_cache' = targets_cache
                   /\ running_tasks' = running_tasks
          /\ (PollerAtTop(g) /\ po[g].idled /\ po'[g].pc = "sweep")
                => /\ config.ACTIVE
                   /\ po'[g].k = 1
                   /\ Len(po'[g].sweep) = Cardinality(EnabledIdx(config))
                   /\ \A k \in 1..Len(po'[g].sweep) :
                         /\ po'[g].sweep[k][1] \in EnabledIdx(config)
                         /\ po'[g].sweep[k][2]
                               = config.TARGETS[po'[g].sweep[k][1]]
                         /\ \A j \in 1..(k - 1) :
                               po'[g].sweep[j][1] < po'[g].sweep[k][1]]_vars

C30_Witness ==
    \E g \in Gens :
        /\ po[g].idled /\ po[g].pc = "sweep" /\ ~po[g].cancel
        /\ config.ACTIVE

\* C28: a step a poller or an executor takes while a cancellation is
\* pending for it ends the task as cancelled; the task is never at another
\* place of its loop afterwards.
C28_CancellationHonoured ==
    [][\A g \in Gens :
          /\ (po[g].cancel /\ po'[g] # po[g]) => po'[g].pc = "done"
          /\ (ex[g].cancel /\ ex'[g] # ex[g]) => ex'[g].pc = "done"]_vars

SweepUpdate(g) ==
    po[g].pc = "sweep" /\ ~po[g].cancel /\ ~po'[g].cancel /\ po'[g] # po[g]

Running(r) == r.pc \notin {"none", "done"} /\ ~r.cancel

\* C32: an executor that is not cancelled ends only at the head of a cycle
\* that reads ACTIVE as false or after the delivered notification of a hard
\* stop, and a poller that is not cancelled does not end; a failure in a
\* cycle (a notification that raises, a configuration that cannot be read,
\* a failed call of the purchase helper) leaves the task alive, and after a
\* notification that raised the executor is at the head of its next cycle.
C32_LoopSurvivesErrors ==
    [][\A g \in Gens :
          /\ (Running(ex[g]) /\ ex'[g].pc = "done")
                => \/ ex[g].pc = "cycle" /\ ~config.ACTIVE
                   \/ ex[g].pc = "notify_stop" /\ ex[g].cause # ""
                        /\ ex'[g].told /\ envSteps' = envSteps
          /\ Running(po[g]) => po'[g].pc # "done"
          /\ (Running(ex[g]) /\ ~ex'[g].cancel /\ envSteps' > envSteps)
                => /\ ex'[g].pc # "done"
                   /\ (ex'[g] # ex[g]
                         /\ ex[g].pc \in {"notify_ok", "notify_stop"})
                        => ex'[g].pc = "cycle"]_vars

C32_Witness ==
    \E g \in Gens :
        /\ ex[g].pc = "cycle" /\ ~ex[g].cancel
        /\ ex[g].succ = 1 /\ ex[g].notified = 0 /\ ex[g].erred
        /\ ExecTask(g) \in running_tasks

EntryShapes(idx, target) ==
    {CacheEntry(idx, gift, target) : gift \in ListingIds \cup {None}}

\* C33: a step that changes an executor's state leaves the cache as it is;
\* a step that changes the cache is one update of a sweeping poller, and
\* the new cache is the old one with the whole entry of that update's
\* target replaced (or added), every other entry untouched.
C33_SingleWriter ==
    [][/\ \A g \in Gens : ex'[g] # ex[g] => targets_cache' = targets_cache
       /\ targets_cache' # targets_cache =>
             \E g \in Gens :
                /\ SweepUpdate(g)
                /\ \E c \in EntryShapes(po[g].sweep[po[g].k][1],
                                         po[g].sweep[po[g].k][2]) :
                      targets_cache' = CachePut(targets_cache, c)]_vars

C33_Witness ==
    \E g \in Gens :
        /\ ex[g].pc = "cycle" /\ ex[g].succ = 1
        /\ CurrentGift(g).link \notin avail
        /\ \E c \in CacheEntryOf(targets_cache, CurrentGift(g).target_index) :
              c.gift_data = CurrentGift(g).link

SupervisorQuiet == \A h \in Handlers : hd[h].pc \in {"idle", "end"}

\* C34 (as stated): whenever are_workers_running is false and no handler
\* is inside start_workers or stop_workers, no poller and no executor is
\* alive: every live worker task is in the tracked set.
C34_NoOrphanedWorkers ==
    (~are_workers_running /\ SupervisorQuiet) =>
        \A g \in Gens : ~TaskAlive(ExecTask(g)) /\ ~TaskAlive(PollTask(g))

HardStopped == \E g \in Gens : ex[g].cause # ""

\* C35 (as stated): once an executor has saved ACTIVE = false in a hard
\* stop, no step of a task that is not the operator's activation sets the
\* saved flag back to true.  (In SpecFault the activation button is not
\* pressed.)
C35_HardStopSticky ==
    [][(HardStopped /\ ~config.ACTIVE) => ~config'.ACTIVE]_vars

PrecheckRefuses(g) ==
    /\ AtCandidate(g) /\ ~ex[g].cancel
    /\ CandidateOk(CurrentGift(g), ex[g].cfg.RCPT)
    /\ config.BALANCE < CurrentGift(g).price
    /\ ex'[g].pc = "cand" /\ ex'[g].gi = ex[g].gi + 1

\* C36 (as stated): a purchase attempt refused because the cached balance
\* is below the price of the candidate leaves the saved configuration as it
\* was; in particular the sender stays enabled.
C36_PrecheckLeavesConfig ==
    [][\A g \in Gens : PrecheckRefuses(g) => config' = config]_vars

InsufficientFundsStop(g) ==
    /\ Place(ex[g]) # "notify_stop"
    /\ Place(ex'[g]) = "notify_stop" /\ ex'[g].cause = "balance"

\* C37 (as stated): the executor takes the hard stop for insufficient funds
\* only on the return of a balance fetch that succeeded, with the account's
\* balance below the price of the cheapest candidate; a fetch that failed,
\* or was not made, does not deactivate the system.
C37_HardStopNeedsBalance ==
    [][\A g \in Gens :
          InsufficientFundsStop(g) =>
            /\ ex[g].pc = "rb_wait"
            /\ userbot_active /\ envSteps' = envSteps
            /\ balance < MinPrice(ex[g].gifts)]_vars

ReturnsFalse(g) ==
    /\ InBuy(g) /\ ex[g].attempt >= 1 /\ ~ex[g].cancel
    /\ Place(ex'[g]) = "cand"

\* C38 (as stated): an invocation of buy_resold_gift_userbot that returns
\* False has debited nothing: the account's balance is what the invocation
\* read before its first call; and the success notification that follows
\* an invocation that returned True reaches the operator.
C38_NoUnreportedDebit ==
    [][\A g \in Gens :
          /\ ReturnsFalse(g) => balance' = ex[g].balance_before
          /\ (ex[g].pc = "notify_ok" /\ ~ex[g].cancel /\ ~ex'[g].cancel
                 /\ ex'[g] # ex[g])
                => ex'[g].notified = ex[g].notified + 1]_vars

\* C39 (as stated): under fair scheduling every handler that waits inside
\* stop_workers for the tasks it cancelled eventually resumes and returns.
C39_StopCompletes ==
    \A h \in Handlers : (hd[h].pc = "stop_wait") ~> (hd[h].pc = "end")

====
